---- MODULE Spec2Model ----
(***************************************************************************)
(* The paper-trading risk-and-position engine of the trading assistant:    *)
(* the sqlite tables of paper_trading_db.py (portfolio, positions,         *)
(* trade_history) and the request handlers of app.py that read and write   *)
(* them (execute, manual close, the price-update pass), each handler one   *)
(* atomic step.                                                            *)
(*                                                                         *)
(* Conventions of the model:                                               *)
(*  - prices, quantities and money are integers; on such values the        *)
(*    floating-point arithmetic of the code is exact (value * 0.02 is      *)
(*    compared as value * 2 against risk * 100);                           *)
(*  - timestamps are kept at day granularity: CURRENT_TIMESTAMP and        *)
(*    datetime.now() both read the variable today;                         *)
(*  - a uuid4 is a fresh identifier: the next value of the counter nextId; *)
(*  - in Spec, SpecCap and SpecEdge a request runs to completion before    *)
(*    the next starts; in SpecConc two worker processes serve requests     *)
(*    side by side and a step is one database call of one of them;         *)
(*  - a Python dict is a TLA+ record carrying exactly the keys the code    *)
(*    builds, so that a lookup of a key the dict lacks is visible;         *)
(*  - a symbol is the sequence of its characters, so that upper() and the  *)
(*    substring test of is_index_symbol are computed, not assumed.         *)
(***************************************************************************)
EXTENDS Integers, Sequences, FiniteSets, TLC

VARIABLES
    portfolio,      \* table portfolio: the sequence of its rows, in rowid order
    positions,      \* table positions: the set of its rows (id is the primary key)
    trade_history,  \* table trade_history: the set of its rows (id is the primary key)
    today,          \* the calendar day the clock shows
    nextId,         \* the next fresh identifier uuid4 hands out
    result,         \* what the last request returned to its caller
    workers         \* where each worker process is in the request it serves

vars == <<portfolio, positions, trade_history, today, nextId, result, workers>>

-----------------------------------------------------------------------------
(* Bounds of the model *)

\* Spec: at most this many inserts, closes and day changes happen in a run
MaxOps == 4
\* SpecCap: at most this many inserts and closes happen in a run
CapOps == 6

-----------------------------------------------------------------------------
(* Program constants *)

InitialCapital == 100000
MaxRiskPercent == 2
MaxActivePositions == 5
MaxIndexTrades == 2

OneHourSetup == "One Hour Setup"
None == "None"

Users == {"u1", "u2"}

\* the gunicorn worker processes that serve requests side by side
Workers == {"w1", "w2"}
Idle == [pc |-> "idle"]

-----------------------------------------------------------------------------
(* Strings as sequences of characters *)

\* the upper-case form of each lower-case letter
UpperOf ==
    [a |-> "A", b |-> "B", c |-> "C", d |-> "D", e |-> "E", f |-> "F", g |-> "G",
     h |-> "H", i |-> "I", j |-> "J", k |-> "K", l |-> "L", m |-> "M", n |-> "N",
     o |-> "O", p |-> "P", q |-> "Q", r |-> "R", s |-> "S", t |-> "T", u |-> "U",
     v |-> "V", w |-> "W", x |-> "X", y |-> "Y", z |-> "Z"]

\* str.upper() on one character
UpperChar(c) == IF c \in DOMAIN UpperOf THEN UpperOf[c] ELSE c

\* str.upper()
StrUpper(s) == [i \in 1..Len(s) |-> UpperChar(s[i])]

\* needle in hay (Python's substring test)
Contains(needle, hay) ==
    \E k \in 0..(Len(hay) - Len(needle)) :
        \A i \in 1..Len(needle) : hay[k + i] = needle[i]

index_symbols ==
    << <<"N","I","F","T","Y">>,
       <<"B","A","N","K","N","I","F","T","Y">>,
       <<"F","I","N","N","I","F","T","Y">>,
       <<"M","I","D","C","P","N","I","F","T","Y">> >>

\* the test as it would be without upper()
is_index_symbol_case_sensitive(symbol) ==
    \E j \in 1..Len(index_symbols) : Contains(index_symbols[j], symbol)

\* any(index in symbol.upper() for index in index_symbols)
is_index_symbol(symbol) ==
    \E j \in 1..Len(index_symbols) : Contains(index_symbols[j], StrUpper(symbol))

\* trade_type.upper() on the side strings the requests carry
UpperSide(t) ==
    CASE t = "buy" -> "BUY"
      [] t = "sell" -> "SELL"
      [] OTHER -> t

\* dict.get(key, default)
DictGet(d, key, default) == IF key \in DOMAIN d THEN d[key] ELSE default

Abs(x) == IF x < 0 THEN -x ELSE x

-----------------------------------------------------------------------------
(* The requests the callers send *)

SymIndex == <<"N","i","f","t","y","5","0">>
SymStock == <<"T","C","S">>
Symbols == {SymIndex, SymStock}

\* a trade request without a strategy: a long trade has its stop below and its
\* target above the entry, a short trade the other way round
TradeRequest(sym, side, qty) ==
    [symbol |-> sym, type |-> side, quantity |-> qty, entryPrice |-> 100,
     stopLoss |-> IF side = "BUY" THEN 95 ELSE 105,
     target |-> IF side = "BUY" THEN 110 ELSE 90]

\* the same request with the optional strategy field
WithStrategy(td, s) ==
    [k \in DOMAIN td \cup {"strategy"} |-> IF k = "strategy" THEN s ELSE td[k]]

\* the requests each user sends: quantity 10 risks 50, quantity 400 risks 2000,
\* exactly 2% of the initial capital
TradeInputs(user_id) ==
    IF user_id = "u1"
    THEN { WithStrategy(TradeRequest(SymIndex, "BUY", 400), OneHourSetup),
           WithStrategy(TradeRequest(SymStock, "SELL", 400), OneHourSetup) }
    ELSE { TradeRequest(SymStock, "BUY", 10) }

\* the requests of the one user of SpecCap: quantity 500 risks 2500, more than
\* 2% of the initial capital
CapUser == "u1"
CapInputs ==
    { WithStrategy(TradeRequest(SymIndex, "BUY", 10), OneHourSetup),
      WithStrategy(TradeRequest(SymStock, "SELL", 10), OneHourSetup),
      TradeRequest(SymStock, "BUY", 500) }

\* the prices a manual close is asked for and the broker quotes
Prices == {90, 110}
\* what get_current_price returns: None, or a dict with the last price
NoData == [found |-> FALSE]
QuoteData(price) == [found |-> TRUE, price |-> price]

-----------------------------------------------------------------------------
(* paper_trading_db.py *)

\* tuple -> dict of a positions row
position_to_dict(row) ==
    [id |-> row.id, user_id |-> row.user_id, symbol |-> row.symbol,
     trade_type |-> row.trade_type, quantity |-> row.quantity,
     entry_price |-> row.entry_price, current_price |-> row.current_price,
     stop_loss |-> row.stop_loss, target |-> row.target,
     strategy |-> row.strategy, notes |-> row.notes,
     risk_amount |-> row.risk_amount, pnl |-> row.pnl, status |-> row.status,
     created_at |-> row.created_at, updated_at |-> row.updated_at]

\* tuple -> dict of a trade_history row
trade_history_to_dict(row) ==
    [id |-> row.id, user_id |-> row.user_id, symbol |-> row.symbol,
     trade_type |-> row.trade_type, quantity |-> row.quantity,
     entry_price |-> row.entry_price, exit_price |-> row.exit_price,
     stop_loss |-> row.stop_loss, target |-> row.target,
     strategy |-> row.strategy, notes |-> row.notes,
     risk_amount |-> row.risk_amount, pnl |-> row.pnl,
     exit_reason |-> row.exit_reason, entry_time |-> row.entry_time,
     exit_time |-> row.exit_time]

\* SELECT * FROM portfolio WHERE user_id = ?
PortfolioRows(tbl, user_id) == SelectSeq(tbl, LAMBDA r : r.user_id = user_id)

\* the call as it would be if it returned the defaults without inserting them
get_or_create_portfolio_not_stored(tbl, user_id) ==
    LET found == PortfolioRows(tbl, user_id)
    IN  IF found # <<>>
        THEN [table |-> tbl, row |-> found[1]]
        ELSE [table |-> tbl,
              row |-> [id |-> Len(tbl) + 1, user_id |-> user_id,
                       initial_value |-> InitialCapital,
                       current_value |-> InitialCapital, total_pnl |-> 0]]

\* the portfolio table after the call, and the dict the call returns
get_or_create_portfolio(tbl, user_id) ==
    LET found == PortfolioRows(tbl, user_id)
        created == [id |-> Len(tbl) + 1, user_id |-> user_id,
                    initial_value |-> InitialCapital,
                    current_value |-> InitialCapital, total_pnl |-> 0]
    IN  IF found # <<>>
        THEN [table |-> tbl, row |-> found[1]]
        ELSE [table |-> Append(tbl, created), row |-> created]

\* the query as it would be without its user_id condition
get_active_positions_all_users(pos, user_id) ==
    { position_to_dict(r) : r \in {q \in pos : q.status = "ACTIVE"} }

\* the dicts of the user's ACTIVE positions
get_active_positions(pos, user_id) ==
    { position_to_dict(r) : r \in {q \in pos : q.user_id = user_id /\ q.status = "ACTIVE"} }

\* the dicts of the user's closed trades
get_trade_history(hist, user_id) ==
    { trade_history_to_dict(r) : r \in {q \in hist : q.user_id = user_id} }

\* active_positions + trade_history of one symbol; the strategy filters only
\* when it is a non-empty string
get_symbol_trades(pos, hist, user_id, symbol, strategy) ==
    LET keep(r) == /\ r.user_id = user_id
                   /\ r.symbol = symbol
                   /\ (strategy # "" => r.strategy = strategy)
    IN  { position_to_dict(r) : r \in {q \in pos : keep(q)} }
        \cup { trade_history_to_dict(r) : r \in {q \in hist : keep(q)} }

\* the insert as it would be if the identifier of the user's latest closed
\* trade were handed out again
execute_trade_reused_id(pos, user_id, trade_data, trade_id) ==
    LET closed_ids == {h.id : h \in {x \in trade_history : x.user_id = user_id}}
        reused == IF closed_ids = {} THEN trade_id
                  ELSE CHOOSE i \in closed_ids : \A j \in closed_ids : j <= i
    IN  pos \cup {[id |-> reused, user_id |-> user_id,
                   symbol |-> trade_data.symbol, trade_type |-> trade_data.type,
                   quantity |-> trade_data.quantity,
                   entry_price |-> trade_data.entryPrice,
                   current_price |-> trade_data.entryPrice,
                   stop_loss |-> trade_data.stopLoss, target |-> trade_data.target,
                   strategy |-> DictGet(trade_data, "strategy", "Manual"),
                   notes |-> DictGet(trade_data, "notes", ""),
                   risk_amount |-> trade_data.riskAmount, pnl |-> 0,
                   status |-> "ACTIVE", created_at |-> today, updated_at |-> today]}

\* INSERT INTO positions: the table after the insert
execute_trade(pos, user_id, trade_data, trade_id) ==
    pos \cup {[id |-> trade_id, user_id |-> user_id,
               symbol |-> trade_data.symbol, trade_type |-> trade_data.type,
               quantity |-> trade_data.quantity,
               entry_price |-> trade_data.entryPrice,
               current_price |-> trade_data.entryPrice,
               stop_loss |-> trade_data.stopLoss, target |-> trade_data.target,
               strategy |-> DictGet(trade_data, "strategy", "Manual"),
               notes |-> DictGet(trade_data, "notes", ""),
               risk_amount |-> trade_data.riskAmount, pnl |-> 0,
               status |-> "ACTIVE", created_at |-> today, updated_at |-> today]}

\* the UPDATE as it would be if current_value read the new total_pnl
update_portfolio_pnl_new_total(tbl, user_id, pnl_change) ==
    [i \in 1..Len(tbl) |->
        IF tbl[i].user_id = user_id
        THEN [tbl[i] EXCEPT !.total_pnl = tbl[i].total_pnl + pnl_change,
                            !.current_value = tbl[i].initial_value
                                              + (tbl[i].total_pnl + pnl_change)
                                              + pnl_change]
        ELSE tbl[i]]

\* UPDATE portfolio ... WHERE user_id = ?: every SET expression reads the row
\* as it was before the statement
update_portfolio_pnl(tbl, user_id, pnl_change) ==
    [i \in 1..Len(tbl) |->
        IF tbl[i].user_id = user_id
        THEN [tbl[i] EXCEPT !.total_pnl = tbl[i].total_pnl + pnl_change,
                            !.current_value = tbl[i].initial_value
                                              + tbl[i].total_pnl + pnl_change]
        ELSE tbl[i]]

\* the P&L as it would be with the long formula on both sides
close_pnl_long_only(pos_dict, exit_price) ==
    (exit_price - pos_dict.entry_price) * pos_dict.quantity

\* the P&L of a close
close_pnl(pos_dict, exit_price) ==
    IF UpperSide(pos_dict.trade_type) = "BUY"
    THEN (exit_price - pos_dict.entry_price) * pos_dict.quantity
    ELSE (pos_dict.entry_price - exit_price) * pos_dict.quantity

\* the row as it would be with entry_time left to the clock
history_row_entry_now(pos_dict, user_id, position_id, exit_price, exit_reason) ==
    [id |-> position_id, user_id |-> user_id, symbol |-> pos_dict.symbol,
     trade_type |-> pos_dict.trade_type, quantity |-> pos_dict.quantity,
     entry_price |-> pos_dict.entry_price, exit_price |-> exit_price,
     stop_loss |-> pos_dict.stop_loss, target |-> pos_dict.target,
     strategy |-> pos_dict.strategy, notes |-> pos_dict.notes,
     risk_amount |-> pos_dict.risk_amount,
     pnl |-> (IF UpperSide(pos_dict.trade_type) = "BUY"
              THEN (exit_price - pos_dict.entry_price) * pos_dict.quantity
              ELSE (pos_dict.entry_price - exit_price) * pos_dict.quantity),
     exit_reason |-> exit_reason, entry_time |-> today, exit_time |-> today]

\* the trade_history row a close inserts
history_row(pos_dict, user_id, position_id, exit_price, exit_reason) ==
    [id |-> position_id, user_id |-> user_id, symbol |-> pos_dict.symbol,
     trade_type |-> pos_dict.trade_type, quantity |-> pos_dict.quantity,
     entry_price |-> pos_dict.entry_price, exit_price |-> exit_price,
     stop_loss |-> pos_dict.stop_loss, target |-> pos_dict.target,
     strategy |-> pos_dict.strategy, notes |-> pos_dict.notes,
     risk_amount |-> pos_dict.risk_amount,
     pnl |-> close_pnl(pos_dict, exit_price), exit_reason |-> exit_reason,
     entry_time |-> pos_dict.created_at, exit_time |-> today]

\* the SELECT as it would be without the user_id condition
find_position_any_user(pos, user_id, position_id) ==
    {r \in pos : r.id = position_id}

\* SELECT * FROM positions WHERE id = ? AND user_id = ?
find_position(pos, user_id, position_id) ==
    {r \in pos : r.id = position_id /\ r.user_id = user_id}

\* the three tables after the call and what it returns; a history row with
\* the same id already there makes the INSERT raise, and nothing is committed
close_position(db, user_id, position_id, exit_price, exit_reason) ==
    LET found == find_position(db.positions, user_id, position_id) IN
    IF found = {}
    THEN [db |-> db, ret |-> [success |-> FALSE, error |-> "Position not found"]]
    ELSE
      LET pos_dict == position_to_dict(CHOOSE r \in found : TRUE)
          pnl == close_pnl(pos_dict, exit_price)
      IN  IF \E h \in db.trade_history : h.id = position_id
          THEN [db |-> db,
                ret |-> [success |-> FALSE, error |-> "UNIQUE constraint failed"]]
          ELSE [db |-> [portfolio |-> update_portfolio_pnl(db.portfolio, user_id, pnl),
                        positions |-> {r \in db.positions :
                                          ~(r.id = position_id /\ r.user_id = user_id)},
                        trade_history |-> db.trade_history \cup
                            {history_row(pos_dict, user_id, position_id,
                                         exit_price, exit_reason)}],
                ret |-> [success |-> TRUE, pnl |-> pnl]]

\* the statements of a close at which the database can fail
ClosingStatements == {"insert", "delete", "update", "commit"}

\* what the connection of a close holds, uncommitted, when the named
\* statement raises: the writes of the statements before it
uncommitted_writes(db, user_id, position_id, exit_price, exit_reason, failing) ==
    LET pos_dict == position_to_dict(
                        CHOOSE r \in find_position(db.positions, user_id, position_id) : TRUE)
        inserted == [db EXCEPT !.trade_history = db.trade_history \cup
                        {history_row(pos_dict, user_id, position_id,
                                     exit_price, exit_reason)}]
        deleted == [inserted EXCEPT !.positions =
                        {r \in db.positions :
                            ~(r.id = position_id /\ r.user_id = user_id)}]
        updated == [deleted EXCEPT !.portfolio =
                        update_portfolio_pnl(db.portfolio, user_id,
                                             close_pnl(pos_dict, exit_price))]
    IN  CASE failing = "insert" -> db
          [] failing = "delete" -> inserted
          [] failing = "update" -> deleted
          [] failing = "commit" -> updated

\* the close as it would be if every statement were committed on its own
close_position_failing_autocommit(db, user_id, position_id, exit_price, exit_reason, failing) ==
    IF find_position(db.positions, user_id, position_id) = {}
    THEN [db |-> db, ret |-> [success |-> FALSE, error |-> "Position not found"]]
    ELSE [db |-> uncommitted_writes(db, user_id, position_id, exit_price,
                                    exit_reason, failing),
          ret |-> [success |-> FALSE, error |-> "disk I/O error"]]

\* close_position when the named statement raises: the except clause returns
\* the message, conn.commit() was never reached, and the connection goes away
\* with its transaction open, so that none of its writes is kept
close_position_failing(db, user_id, position_id, exit_price, exit_reason, failing) ==
    IF find_position(db.positions, user_id, position_id) = {}
    THEN [db |-> db, ret |-> [success |-> FALSE, error |-> "Position not found"]]
    ELSE [db |-> db,
          ret |-> [success |-> FALSE, error |-> "disk I/O error"]]

\* the UPDATE as it would be if it recomputed the stored pnl too
update_position_price_with_pnl(pos, position_id, current_price) ==
    { IF r.id = position_id /\ r.status = "ACTIVE"
      THEN [r EXCEPT !.current_price = current_price, !.updated_at = today,
                     !.pnl = close_pnl(r, current_price)]
      ELSE r : r \in pos }

\* UPDATE positions SET current_price = ? WHERE id = ? AND status = 'ACTIVE'
update_position_price(pos, position_id, current_price) ==
    { IF r.id = position_id /\ r.status = "ACTIVE"
      THEN [r EXCEPT !.current_price = current_price, !.updated_at = today]
      ELSE r : r \in pos }

-----------------------------------------------------------------------------
(* app.py: the risk validator *)

\* the database as the three tables
DB == [portfolio |-> portfolio, positions |-> positions,
       trade_history |-> trade_history]

\* the reasons a request fails with
IndexLimitError(symbol) == [reason |-> "index_limit", symbol |-> symbol]
ReentryError(symbol) == [reason |-> "reentry_after_stop_loss", symbol |-> symbol]
RiskError(risk_amount, value) ==
    [reason |-> "risk", risk_amount |-> risk_amount,
     max_risk_x100 |-> value * MaxRiskPercent]
PositionCountError == [reason |-> "position_count"]
ValidationException(key) == [reason |-> "risk_validation_error", key |-> key]
MissingField(field) == [reason |-> "missing_field", field |-> field]

\* the risk as it would be without abs
risk_amount_of_signed(trade_data) ==
    (trade_data.entryPrice - trade_data.stopLoss) * trade_data.quantity

\* abs(entry_price - stop_loss) * quantity
risk_amount_of(trade_data) ==
    Abs(trade_data.entryPrice - trade_data.stopLoss) * trade_data.quantity

\* Rule 1 applies to this request
rule1_applies(trade_data) ==
    /\ DictGet(trade_data, "strategy", "") = OneHourSetup
    /\ is_index_symbol(trade_data.symbol)

\* t['status'] raises KeyError on a dict without that key
rule1_raises(existing_trades) ==
    \E t \in existing_trades : "status" \notin DOMAIN t

\* active_index_trades >= 2
rule1_rejects(existing_trades) ==
    Cardinality({t \in existing_trades : t.status = "ACTIVE"}) >= MaxIndexTrades

\* [t for t in existing_trades if t.get('exitReason') == 'STOP_LOSS']
recent_sl_trades(existing_trades) ==
    {t \in existing_trades : DictGet(t, "exitReason", None) = "STOP_LOSS"}

\* trade['timestamp'] raises KeyError on a dict without that key
rule2_raises(existing_trades) ==
    \E t \in recent_sl_trades(existing_trades) : "timestamp" \notin DOMAIN t

\* some stop-loss trade is dated today
rule2_rejects(existing_trades) ==
    \E t \in recent_sl_trades(existing_trades) : t.timestamp = today

\* the test as it would be against 20% of the portfolio
rule3_rejects_twenty_percent(risk_amount, portfolio_value) ==
    risk_amount * 100 > portfolio_value * 20

\* risk_amount > portfolio_value * 0.02
rule3_rejects(risk_amount, portfolio_value) ==
    risk_amount * 100 > portfolio_value * MaxRiskPercent

\* the test as it would be with > for >=
rule4_rejects_above(all_active_positions) ==
    Cardinality(all_active_positions) > MaxActivePositions

\* len(all_active_positions) >= 5
rule4_rejects(all_active_positions) ==
    Cardinality(all_active_positions) >= MaxActivePositions

\* what the validator returns, and the portfolio table after it
\* (get_portfolio_data creates the user's portfolio row when Rule 3 is reached)
validate_trade_risk(db, user_id, trade_data) ==
    LET symbol == trade_data.symbol
        strategy == DictGet(trade_data, "strategy", "")
        existing_trades == get_symbol_trades(db.positions, db.trade_history,
                                             user_id, symbol, strategy)
        got == get_or_create_portfolio(db.portfolio, user_id)
        risk_amount == risk_amount_of(trade_data)
        fail(e, tbl) == [valid |-> FALSE, error |-> e, portfolio |-> tbl]
    IN  IF rule1_applies(trade_data) /\ rule1_raises(existing_trades)
          THEN fail(ValidationException("status"), db.portfolio)
        ELSE IF rule1_applies(trade_data) /\ rule1_rejects(existing_trades)
          THEN fail(IndexLimitError(symbol), db.portfolio)
        ELSE IF rule2_raises(existing_trades)
          THEN fail(ValidationException("timestamp"), db.portfolio)
        ELSE IF rule2_rejects(existing_trades)
          THEN fail(ReentryError(symbol), db.portfolio)
        ELSE IF rule3_rejects(risk_amount, got.row.current_value)
          THEN fail(RiskError(risk_amount, got.row.current_value), got.table)
        ELSE IF rule4_rejects(get_active_positions(db.positions, user_id))
          THEN fail(PositionCountError, got.table)
        ELSE [valid |-> TRUE, portfolio |-> got.table]

-----------------------------------------------------------------------------
(* app.py: the trade executor *)

\* the executor as it would be if it inserted whatever the validator says
execute_paper_trade_insert_anyway(db, user_id, trade_data, trade_id) ==
    LET risk_check == validate_trade_risk(db, user_id, trade_data)
        stored == [db EXCEPT !.portfolio = risk_check.portfolio,
                             !.positions = execute_trade(db.positions, user_id,
                                [symbol |-> trade_data.symbol, type |-> trade_data.type,
                                 quantity |-> trade_data.quantity,
                                 entryPrice |-> trade_data.entryPrice,
                                 stopLoss |-> trade_data.stopLoss,
                                 target |-> trade_data.target,
                                 strategy |-> DictGet(trade_data, "strategy", "Manual"),
                                 notes |-> DictGet(trade_data, "notes", ""),
                                 riskAmount |-> risk_amount_of(trade_data)], trade_id)]
    IN  IF ~risk_check.valid
        THEN [db |-> stored, ret |-> [success |-> FALSE, error |-> risk_check.error]]
        ELSE [db |-> stored, ret |-> [success |-> TRUE, tradeId |-> trade_id]]

\* the database after the call and what it returns
execute_paper_trade(db, user_id, trade_data, trade_id) ==
    LET risk_check == validate_trade_risk(db, user_id, trade_data)
        db_trade_data ==
            [symbol |-> trade_data.symbol, type |-> trade_data.type,
             quantity |-> trade_data.quantity,
             entryPrice |-> trade_data.entryPrice,
             stopLoss |-> trade_data.stopLoss, target |-> trade_data.target,
             strategy |-> DictGet(trade_data, "strategy", "Manual"),
             notes |-> DictGet(trade_data, "notes", ""),
             riskAmount |-> risk_amount_of(trade_data)]
    IN  IF ~risk_check.valid
        THEN [db |-> [db EXCEPT !.portfolio = risk_check.portfolio],
              ret |-> [success |-> FALSE, error |-> risk_check.error]]
        ELSE [db |-> [db EXCEPT !.portfolio = risk_check.portfolio,
                                !.positions = execute_trade(db.positions, user_id,
                                                            db_trade_data, trade_id)],
              ret |-> [success |-> TRUE, tradeId |-> trade_id]]

required_fields == <<"symbol", "type", "quantity", "entryPrice", "stopLoss", "target">>

\* POST /api/paper-trading/execute
api_paper_trading_execute(db, user_id, data, trade_id) ==
    LET missing == {i \in 1..Len(required_fields) : required_fields[i] \notin DOMAIN data}
    IN  IF missing # {}
        THEN [db |-> db,
              ret |-> [success |-> FALSE,
                       error |-> MissingField(required_fields[
                                    CHOOSE i \in missing : \A j \in missing : i <= j])]]
        ELSE execute_paper_trade(db, user_id, data, trade_id)

\* POST /api/paper-trading/close
api_paper_trading_close(db, user_id, position_id, exit_price) ==
    close_position(db, user_id, position_id, exit_price, "MANUAL")

-----------------------------------------------------------------------------
(* app.py: the position monitor *)

\* the test as it would be with the target looked at first
exit_condition_target_first(position, current_price) ==
    IF UpperSide(position.trade_type) = "BUY"
    THEN IF current_price >= position.target THEN "TARGET"
         ELSE IF current_price <= position.stop_loss THEN "STOP_LOSS"
         ELSE None
    ELSE IF current_price <= position.target THEN "TARGET"
         ELSE IF current_price >= position.stop_loss THEN "STOP_LOSS"
         ELSE None

\* the exit a fetched price triggers for a position, stop-loss first
exit_condition(position, current_price) ==
    IF UpperSide(position.trade_type) = "BUY"
    THEN IF current_price <= position.stop_loss THEN "STOP_LOSS"
         ELSE IF current_price >= position.target THEN "TARGET"
         ELSE None
    ELSE IF current_price >= position.stop_loss THEN "STOP_LOSS"
         ELSE IF current_price <= position.target THEN "TARGET"
         ELSE None

\* the entry of the reported list for a position whose price was fetched
reported_entry(position, current_price, exit) ==
    IF exit = None
    THEN [id |-> position.id, current_price |-> current_price,
          status |-> position.status]
    ELSE [id |-> position.id, current_price |-> current_price,
          status |-> "CLOSED", exit_reason |-> exit]

\* the loop over the positions read at the start of the pass, newest first;
\* quotes[symbol] is what get_current_price returns for the symbol in this pass
RECURSIVE monitor_loop(_, _, _, _, _)
monitor_loop(db, user_id, todo, quotes, updated_positions) ==
    IF todo = {}
    THEN [db |-> db, updated_positions |-> updated_positions]
    ELSE
      LET position == CHOOSE p \in todo : \A q \in todo : q.id <= p.id
          rest == todo \ {position}
          current_price_data == quotes[position.symbol]
          current_price == current_price_data.price
      IN  IF ~current_price_data.found
          THEN monitor_loop(db, user_id, rest, quotes, updated_positions)
          ELSE
            LET priced == [db EXCEPT !.positions =
                              update_position_price(db.positions, position.id,
                                                    current_price)]
                exit == exit_condition(position, current_price)
                after == IF exit = None
                         THEN priced
                         ELSE close_position(priced, user_id, position.id,
                                             current_price, exit).db
            IN  monitor_loop(after, user_id, rest, quotes,
                             Append(updated_positions,
                                    reported_entry(position, current_price, exit)))

\* the pass as it would be if the first failed fetch ended the loop
api_update_position_prices_abort(db, user_id, quotes) ==
    LET active == get_active_positions(db.positions, user_id)
        before_failure ==
            {p \in active : \A f \in active : ~quotes[f.symbol].found => p.id > f.id}
        done == monitor_loop(db, user_id, before_failure, quotes, <<>>)
    IN  [db |-> done.db,
         ret |-> [success |-> TRUE, positions |-> done.updated_positions,
                  updated_count |-> Len(done.updated_positions)]]

\* POST /api/update-position-prices
api_update_position_prices(db, user_id, quotes) ==
    LET done == monitor_loop(db, user_id, get_active_positions(db.positions, user_id),
                             quotes, <<>>)
    IN  [db |-> done.db,
         ret |-> [success |-> TRUE, positions |-> done.updated_positions,
                  updated_count |-> Len(done.updated_positions)]]

-----------------------------------------------------------------------------
(* The state machine: one request at a time, each run to completion *)

Quotes == [Symbols -> {QuoteData(p) : p \in Prices} \cup {NoData}]
Init ==
    /\ portfolio = <<>>
    /\ positions = {}
    /\ trade_history = {}
    /\ today = 0
    /\ nextId = 1
    /\ result = [op |-> "none"]
    /\ workers = [w \in Workers |-> Idle]

Commit(db) ==
    /\ portfolio' = db.portfolio
    /\ positions' = db.positions
    /\ trade_history' = db.trade_history

Execute(user_id, data) ==
    \E r \in {api_paper_trading_execute(DB, user_id, data, nextId)} :
    /\ Commit(r.db)
    /\ nextId' = IF r.ret.success THEN nextId + 1 ELSE nextId
    /\ result' = [op |-> "execute", user_id |-> user_id, ret |-> r.ret]
    /\ UNCHANGED <<today, workers>>

Close(user_id, position_id, exit_price) ==
    \E r \in {api_paper_trading_close(DB, user_id, position_id, exit_price)} :
    /\ Commit(r.db)
    /\ result' = [op |-> "close", user_id |-> user_id,
                   position_id |-> position_id, ret |-> r.ret]
    /\ UNCHANGED <<today, nextId, workers>>

Monitor(user_id, quotes) ==
    \E r \in {api_update_position_prices(DB, user_id, quotes)} :
    /\ Commit(r.db)
    /\ result' = [op |-> "monitor", user_id |-> user_id, ret |-> r.ret]
    /\ UNCHANGED <<today, nextId, workers>>

\* a manual close during which the database fails at the named statement
CloseFails(user_id, position_id, exit_price, failing) ==
    \E r \in {close_position_failing(DB, user_id, position_id, exit_price,
                                      "MANUAL", failing)} :
    /\ Commit(r.db)
    /\ result' = [op |-> "close", user_id |-> user_id,
                   position_id |-> position_id, ret |-> r.ret]
    /\ UNCHANGED <<today, nextId, workers>>

\* a call of update_position_price on its own
UpdatePrice(position_id, current_price) ==
    /\ positions' = update_position_price(positions, position_id, current_price)
    /\ result' = [op |-> "update_position_price", position_id |-> position_id,
                  current_price |-> current_price]
    /\ UNCHANGED <<portfolio, trade_history, today, nextId, workers>>

\* the inserts, closes and day changes so far
OpsDone == (nextId - 1) + Cardinality(trade_history) + today

AdvanceDay ==
    /\ today' = today + 1
    /\ UNCHANGED <<portfolio, positions, trade_history, nextId, result, workers>>

\* the ids a close is asked for: every id handed out so far, and one that
\* never was
KnownIds == 1..nextId

\* Spec: two users, over several days; the requests stop being served once
\* the run is MaxOps operations long
WithinBounds == OpsDone' <= MaxOps

Next ==
    \/ \E u \in Users : \E td \in TradeInputs(u) : Execute(u, td) /\ WithinBounds
    \/ \E u \in Users, id \in KnownIds, px \in Prices :
          Close(u, id, px) /\ WithinBounds
    \/ \E u \in Users, q \in Quotes : Monitor(u, q) /\ WithinBounds
    \/ AdvanceDay /\ WithinBounds

Spec == Init /\ [][Next]_vars

\* SpecCap: one user fills the account, within one day
WithinCap == OpsDone' <= CapOps

NextCap ==
    \/ \E td \in CapInputs : Execute(CapUser, td) /\ WithinCap
    \/ \E id \in KnownIds, px \in Prices : Close(CapUser, id, px) /\ WithinCap
    \/ \E q \in Quotes : Monitor(CapUser, q) /\ WithinCap

SpecCap == Init /\ [][NextCap]_vars

-----------------------------------------------------------------------------
(* Properties *)

\* this step is the execute request of the user with these fields
Executed(user_id, td) ==
    /\ result'.op = "execute"
    /\ result'.user_id = user_id
    /\ Execute(user_id, td)

\* this step is the manual close the user asks for this id at this price
Closed(user_id, position_id, exit_price) ==
    /\ result'.op = "close"
    /\ result'.user_id = user_id
    /\ result'.position_id = position_id
    /\ Close(user_id, position_id, exit_price)

\* the rows of the portfolio table that belong to the user
PortfolioCount(user_id) ==
    Cardinality({i \in 1..Len(portfolio) : portfolio[i].user_id = user_id})

\* the user's ACTIVE rows of the positions table
ActiveOf(user_id) == {p \in positions : p.user_id = user_id /\ p.status = "ACTIVE"}

\* the user's rows of the trade_history table
HistoryOf(user_id) == {h \in trade_history : h.user_id = user_id}

\* C1: in every reachable state, every portfolio row has
\* current_value = initial_value + total_pnl
C1_PortfolioValue ==
    \A i \in 1..Len(portfolio) :
        portfolio[i].current_value
            = portfolio[i].initial_value + portfolio[i].total_pnl

\* two closes of one user have been added up to a non-zero total
C1_Witness ==
    \E i \in 1..Len(portfolio) :
        /\ portfolio[i].total_pnl # 0
        /\ Cardinality(HistoryOf(portfolio[i].user_id)) = 2

\* C2: with one request at a time no user ever has more than 5 ACTIVE
\* positions, and every execute sent while the user has 5 or more is rejected
\* and inserts nothing
C2_AtMostFiveActive ==
    [][ /\ \A u \in Users : Cardinality(ActiveOf(u)') <= 5
        /\ \A td \in CapInputs :
            (Executed(CapUser, td) /\ Cardinality(ActiveOf(CapUser)) >= 5)
                => (~result'.ret.success /\ positions' = positions) ]_vars

\* an execute has just been rejected for a user with 5 ACTIVE positions
C2_Witness ==
    /\ result.op = "execute"
    /\ ~result.ret.success
    /\ Cardinality(ActiveOf(result.user_id)) = 5

\* the current_value the validator reads for the user: that of the user's
\* portfolio row, or the initial capital when the row is still to be created
ValueRead(user_id) ==
    IF \E i \in 1..Len(portfolio) : portfolio[i].user_id = user_id
    THEN portfolio[CHOOSE i \in 1..Len(portfolio) :
                      /\ portfolio[i].user_id = user_id
                      /\ \A j \in 1..(i - 1) : portfolio[j].user_id # user_id].current_value
    ELSE 100000

\* |entry_price - stop_loss| * quantity of a request
CandidateRisk(td) ==
    LET d == td.entryPrice - td.stopLoss
    IN  (IF d < 0 THEN -d ELSE d) * td.quantity

\* the strategy of a request, empty when it carries none
RequestStrategy(td) == IF "strategy" \in DOMAIN td THEN td.strategy ELSE ""

\* the user's ACTIVE One-Hour-Setup positions on the request's symbol
SetupPositions(user_id, td) ==
    {p \in ActiveOf(user_id) : p.symbol = td.symbol /\ p.strategy = "One Hour Setup"}

\* the user's closed trades of the request's symbol and strategy
SetupHistory(user_id, td) ==
    {h \in HistoryOf(user_id) : h.symbol = td.symbol /\ h.strategy = "One Hour Setup"}

\* the four rules as the specification words them; SymIndex ("Nifty50") is the
\* one index symbol among the requests
Rule1Violated(user_id, td) ==
    /\ RequestStrategy(td) = "One Hour Setup"
    /\ td.symbol = SymIndex
    /\ Cardinality(SetupPositions(user_id, td)) >= 2
Rule2Violated(user_id, td) ==
    \E h \in HistoryOf(user_id) :
        h.symbol = td.symbol /\ h.exit_reason = "STOP_LOSS" /\ h.exit_time = today
Rule3Violated(user_id, td) == CandidateRisk(td) * 100 > ValueRead(user_id) * 2
Rule4Violated(user_id, td) == Cardinality(ActiveOf(user_id)) >= 5

\* the validator stops in Rule 1: it rejects there, or its lookup of 'status'
\* fails on a closed trade of the same symbol and strategy
StopsInRule1(user_id, td) ==
    /\ RequestStrategy(td) = "One Hour Setup"
    /\ td.symbol = SymIndex
    /\ \/ Cardinality(SetupPositions(user_id, td)) >= 2
       \/ SetupHistory(user_id, td) # {}

\* the reason a rejected request came back with
Reason(res) == IF res.ret.success THEN "accepted" ELSE res.ret.error.reason

\* C3 as stated: a request sent with 5 positions ACTIVE, which Rules 1 and 2
\* do not stop, is rejected with the position-count reason whatever its risk
C3_CountReasonWhateverRisk ==
    [][\A td \in CapInputs :
          ( /\ Executed(CapUser, td)
            /\ Cardinality(ActiveOf(CapUser)) >= 5
            /\ ~Rule1Violated(CapUser, td)
            /\ ~Rule2Violated(CapUser, td) )
          => Reason(result') = "position_count"]_vars

\* C3 as amended: a request sent with 5 positions ACTIVE is always rejected
\* and inserts nothing; when the validator does not stop in Rule 1, the reason
\* is the per-trade-risk reason if the risk exceeds 2% of current_value (Rule 3
\* comes before Rule 4) and the position-count reason otherwise
C3_SixthRejected ==
    [][\A td \in CapInputs :
          (Executed(CapUser, td) /\ Cardinality(ActiveOf(CapUser)) >= 5)
          => /\ ~result'.ret.success
             /\ positions' = positions
             /\ ~StopsInRule1(CapUser, td)
                  => Reason(result') = IF Rule3Violated(CapUser, td)
                                       THEN "risk" ELSE "position_count"]_vars

\* with 5 positions ACTIVE a request has just been rejected for its risk
C3_Witness ==
    /\ result.op = "execute"
    /\ Reason(result) = "risk"
    /\ Cardinality(ActiveOf(result.user_id)) = 5

\* C4 as stated: a request for a symbol with a STOP_LOSS exit dated today,
\* which Rule 1 does not stop, is rejected with the re-entry reason whatever
\* its other fields; without such an exit no request is rejected for re-entry
C4_NoReentryAfterStopLoss ==
    [][\A u \in Users : \A td \in TradeInputs(u) :
          (Executed(u, td) /\ ~Rule1Violated(u, td))
          => IF Rule2Violated(u, td)
             THEN result'.ret = [success |-> FALSE, error |-> ReentryError(td.symbol)]
             ELSE Reason(result') # "reentry_after_stop_loss"]_vars

\* a request for a symbol stopped out today has just been accepted
C4_ReentryAccepted ==
    /\ result.op = "execute"
    /\ result.ret.success
    /\ \E p \in positions :
        /\ p.id = result.ret.tradeId
        /\ \E h \in HistoryOf(p.user_id) :
            /\ h.symbol = p.symbol
            /\ h.exit_reason = "STOP_LOSS"
            /\ h.exit_time = today

\* C5 as stated: a request that Rules 1 and 2 let through is rejected with the
\* per-trade-risk reason exactly when its risk exceeds 2% of current_value, and
\* no request with a higher risk is accepted
C5_RiskCap ==
    [][\A u \in Users : \A td \in TradeInputs(u) :
          (Executed(u, td) /\ ~Rule1Violated(u, td) /\ ~Rule2Violated(u, td))
          => /\ (Reason(result') = "risk") <=> Rule3Violated(u, td)
             /\ result'.ret.success => ~Rule3Violated(u, td)]_vars

\* C6: a One-Hour-Setup request on the index symbol is rejected, and inserts
\* nothing, when 2 or more ACTIVE positions of that symbol and strategy exist,
\* so no user ever has more than 2 of them; a request on the non-index symbol
\* is never rejected for the index limit
C6_IndexSetupLimit ==
    [][ /\ \A u \in Users :
            Cardinality({p \in ActiveOf(u)' :
                            p.symbol = SymIndex /\ p.strategy = "One Hour Setup"}) <= 2
        /\ \A u \in Users : \A td \in TradeInputs(u) :
            Executed(u, td)
            => /\ Rule1Violated(u, td)
                    => (~result'.ret.success /\ positions' = positions)
               /\ td.symbol # SymIndex => Reason(result') # "index_limit" ]_vars

\* a third One-Hour-Setup request on the index symbol has just been rejected
C6_Witness ==
    /\ result.op = "execute"
    /\ Reason(result) = "index_limit"
    /\ Cardinality({p \in ActiveOf(result.user_id) :
                       p.symbol = SymIndex /\ p.strategy = "One Hour Setup"}) = 2

\* the rules a request violates, by number
ViolatedRules(user_id, td) ==
    {n \in 1..4 : \/ n = 1 /\ Rule1Violated(user_id, td)
                  \/ n = 2 /\ Rule2Violated(user_id, td)
                  \/ n = 3 /\ Rule3Violated(user_id, td)
                  \/ n = 4 /\ Rule4Violated(user_id, td)}

RuleReason(n) ==
    CASE n = 1 -> "index_limit"
      [] n = 2 -> "reentry_after_stop_loss"
      [] n = 3 -> "risk"
      [] n = 4 -> "position_count"

\* C7 as stated: a request that violates more than one rule is rejected with
\* the reason of the lowest-numbered rule it violates
C7_FirstFailingRuleWins ==
    [][\A u \in Users : \A td \in TradeInputs(u) :
          (Executed(u, td) /\ Cardinality(ViolatedRules(u, td)) > 1)
          => Reason(result')
               = RuleReason(CHOOSE n \in ViolatedRules(u, td) :
                               \A m \in ViolatedRules(u, td) : n <= m)]_vars

\* the P&L the specification gives a close
ExpectedPnl(side, entry_price, exit_price, quantity) ==
    IF side = "BUY"
    THEN (exit_price - entry_price) * quantity
    ELSE (entry_price - exit_price) * quantity

\* C8: every trade-history record carries the P&L of its side, and a manual
\* close of an ACTIVE position returns that P&L, stores it in the record it
\* inserts and adds it to total_pnl of the user's portfolio
C8_ClosePnl ==
    [][ /\ \A h \in trade_history' :
            h.pnl = ExpectedPnl(h.trade_type, h.entry_price, h.exit_price, h.quantity)
        /\ \A u \in Users, id \in KnownIds, px \in Prices : \A p \in ActiveOf(u) :
            (Closed(u, id, px) /\ p.id = id)
            => LET pnl == ExpectedPnl(p.trade_type, p.entry_price, px, p.quantity)
               IN  /\ result'.ret = [success |-> TRUE, pnl |-> pnl]
                   /\ \E h \in trade_history' \ trade_history :
                        h.id = id /\ h.exit_price = px /\ h.pnl = pnl
                   /\ \E i \in 1..Len(portfolio) : portfolio[i].user_id = u
                   /\ \A i \in 1..Len(portfolio) :
                        portfolio[i].user_id = u
                        => portfolio'[i].total_pnl = portfolio[i].total_pnl + pnl ]_vars

\* a short position of 400 entered at 100 has just been closed by hand at 90
C8_Witness ==
    /\ result.op = "close"
    /\ result.ret = [success |-> TRUE, pnl |-> 4000]
    /\ \E h \in trade_history :
        /\ h.id = result.position_id
        /\ h.trade_type = "SELL" /\ h.entry_price = 100 /\ h.exit_price = 90
        /\ h.quantity = 400 /\ h.pnl = 4000

\* C9: no id is both in the positions and in the trade history, and a manual
\* close of an ACTIVE position removes exactly that position and adds exactly
\* one record, with the same id, the position's fields and entry_time equal
\* to its created_at
C9_CloseMovesPosition ==
    [][ /\ \A p \in positions', h \in trade_history' : p.id # h.id
        /\ \A u \in Users, id \in KnownIds, px \in Prices : \A p \in ActiveOf(u) :
            (Closed(u, id, px) /\ p.id = id)
            => /\ positions' = positions \ {p}
               /\ \E h \in trade_history' :
                    /\ h \notin trade_history
                    /\ trade_history' = trade_history \cup {h}
                    /\ Cardinality({x \in trade_history' : x.id = id}) = 1
                    /\ h.id = id /\ h.user_id = u
                    /\ h.symbol = p.symbol /\ h.trade_type = p.trade_type
                    /\ h.quantity = p.quantity /\ h.entry_price = p.entry_price
                    /\ h.stop_loss = p.stop_loss /\ h.target = p.target
                    /\ h.strategy = p.strategy /\ h.risk_amount = p.risk_amount
                    /\ h.entry_time = p.created_at ]_vars

\* a position opened on one day has just been closed by hand on a later day
C9_Witness ==
    /\ result.op = "close"
    /\ result.ret.success
    /\ \E h \in trade_history :
        /\ h.id = result.position_id
        /\ h.exit_reason = "MANUAL"
        /\ h.entry_time < h.exit_time

\* C10: a manual close with an id that is no ACTIVE position of the caller
\* fails with the not-found error and changes none of the three tables
C10_CloseNotFound ==
    [][\A u \in Users, id \in KnownIds, px \in Prices :
          (Closed(u, id, px) /\ ~\E p \in ActiveOf(u) : p.id = id)
          => /\ result'.ret = [success |-> FALSE, error |-> "Position not found"]
             /\ UNCHANGED <<portfolio, positions, trade_history>>]_vars

\* a close of another user's ACTIVE position has just failed, after a trade
\* of the caller had been closed
C10_Witness ==
    /\ result.op = "close"
    /\ ~result.ret.success
    /\ \E p \in positions :
        p.id = result.position_id /\ p.user_id # result.user_id
    /\ HistoryOf(result.user_id) # {}

-----------------------------------------------------------------------------
(* SpecEdge: one user sends requests at the edges of the input space, and   *)
(* the broker quotes prices that trigger nothing, one exit, or both exits   *)

\* SpecEdge: at most this many inserts and closes happen in a run
EdgeOps == 3

EdgeUser == "u1"

\* a request without the required field target
RequestWithoutTarget ==
    [symbol |-> SymStock, type |-> "BUY", quantity |-> 10, entryPrice |-> 100,
     stopLoss |-> 95]

\* a long request whose stop is above and whose target is below the entry:
\* a quote of 100 meets the stop-loss and the target condition at once
RequestBothExits ==
    [symbol |-> SymIndex, type |-> "BUY", quantity |-> 10, entryPrice |-> 100,
     stopLoss |-> 105, target |-> 95]

\* the requests of SpecEdge: a plain one, one that risks 2500, one with a
\* negative quantity, one without target, one with crossed stop and target
EdgeInputs ==
    { TradeRequest(SymStock, "BUY", 10),
      TradeRequest(SymStock, "BUY", 500),
      TradeRequest(SymStock, "SELL", -10),
      RequestWithoutTarget,
      RequestBothExits }

\* the prices the broker quotes in SpecEdge: 100 crosses neither the stop nor
\* the target of a plain request
EdgePrices == {90, 100, 110}
EdgeQuotes == [Symbols -> {QuoteData(p) : p \in EdgePrices} \cup {NoData}]

WithinEdge == OpsDone' <= EdgeOps

NextEdge ==
    \/ \E td \in EdgeInputs : Execute(EdgeUser, td) /\ WithinEdge
    \/ \E id \in KnownIds, px \in Prices : Close(EdgeUser, id, px) /\ WithinEdge
    \/ \E q \in EdgeQuotes : Monitor(EdgeUser, q) /\ WithinEdge
    \/ \E id \in KnownIds, px \in Prices, f \in ClosingStatements :
          CloseFails(EdgeUser, id, px, f) /\ WithinEdge
    \/ \E id \in KnownIds, px \in EdgePrices : UpdatePrice(id, px) /\ WithinEdge

SpecEdge == Init /\ [][NextEdge]_vars

\* the first required field a request lacks, in the order the handler looks
FirstMissing(td) ==
    required_fields[CHOOSE i \in 1..Len(required_fields) :
                        /\ required_fields[i] \notin DOMAIN td
                        /\ \A j \in 1..(i - 1) : required_fields[j] \in DOMAIN td]

\* C11: an execute that returns success false inserts no position, leaves the
\* positions, the trade history and every existing portfolio row as they
\* were and the value the user's portfolio shows unchanged, and its error is
\* the missing-field message or the validator's reason, word for word
C11_FailedExecuteChangesNothing ==
    [][\A td \in EdgeInputs :
          (Executed(EdgeUser, td) /\ ~result'.ret.success)
          => /\ positions' = positions
             /\ trade_history' = trade_history
             /\ nextId' = nextId
             /\ \A i \in 1..Len(portfolio) : portfolio'[i] = portfolio[i]
             /\ ValueRead(EdgeUser)' = ValueRead(EdgeUser)
             /\ result'.ret.error =
                   IF \E f \in {"symbol", "type", "quantity", "entryPrice",
                                 "stopLoss", "target"} : f \notin DOMAIN td
                   THEN MissingField(FirstMissing(td))
                   ELSE validate_trade_risk(DB, EdgeUser, td).error]_vars

\* with a position open, a request without target has just been refused
C11_Witness ==
    /\ result.op = "execute"
    /\ ~result.ret.success
    /\ result.ret.error = MissingField("target")
    /\ ActiveOf(EdgeUser) # {}
    /\ Len(portfolio) = 1

\* C12 as stated: a request whose quantity, entry price, stop or target is
\* zero or negative fails and stores nothing, so every position and every
\* trade-history record has quantity > 0 and risk_amount >= 0
C12_NonPositiveRejected ==
    [][ /\ \A p \in positions' : p.quantity > 0 /\ p.risk_amount >= 0
        /\ \A h \in trade_history' : h.quantity > 0 /\ h.risk_amount >= 0
        /\ \A td \in EdgeInputs \ {RequestWithoutTarget} :
            ( /\ Executed(EdgeUser, td)
              /\ \/ td.quantity <= 0 \/ td.entryPrice <= 0
                 \/ td.stopLoss <= 0 \/ td.target <= 0 )
            => (~result'.ret.success /\ positions' = positions) ]_vars

\* this step is the monitor pass of the user with these quotes
Monitored(user_id, quotes) ==
    /\ result'.op = "monitor"
    /\ result'.user_id = user_id
    /\ Monitor(user_id, quotes)

\* the stop-loss and the target condition of the specification
StopHit(p, price) ==
    IF p.trade_type = "BUY" THEN price <= p.stop_loss ELSE price >= p.stop_loss
TargetHit(p, price) ==
    IF p.trade_type = "BUY" THEN price >= p.target ELSE price <= p.target

\* C13: in a monitor pass every ACTIVE position whose price was fetched is
\* closed with STOP_LOSS if its stop condition holds (also when the target
\* condition holds too), else with TARGET if its target condition holds, the
\* fetched price being the exit price; else it stays ACTIVE with
\* current_price set to the fetched price
C13_MonitorExits ==
    [][\A q \in EdgeQuotes : \A p \in ActiveOf(EdgeUser) :
          (Monitored(EdgeUser, q) /\ q[p.symbol].found)
          => LET price == q[p.symbol].price
                 closed_as(reason) ==
                     /\ \A x \in positions' : x.id # p.id
                     /\ \E h \in trade_history' \ trade_history :
                          /\ h.id = p.id
                          /\ h.exit_reason = reason
                          /\ h.exit_price = price
             IN  IF StopHit(p, price) THEN closed_as("STOP_LOSS")
                 ELSE IF TargetHit(p, price) THEN closed_as("TARGET")
                 ELSE /\ \A h \in trade_history' : h.id # p.id
                      /\ \E x \in positions' :
                           /\ x.id = p.id
                           /\ x.status = "ACTIVE"
                           /\ x.current_price = price
                           /\ [x EXCEPT !.current_price = p.current_price,
                                        !.updated_at = p.updated_at] = p]_vars

\* a pass has just closed, with STOP_LOSS at 100, a long position whose stop
\* and target conditions both hold at 100, and left another one ACTIVE at 100
C13_Witness ==
    /\ result.op = "monitor"
    /\ \E h \in trade_history :
        /\ h.trade_type = "BUY" /\ h.stop_loss = 105 /\ h.target = 95
        /\ h.exit_price = 100 /\ h.exit_reason = "STOP_LOSS"
        /\ \E i \in 1..Len(result.ret.positions) :
              result.ret.positions[i].id = h.id
    /\ \E x \in ActiveOf(result.user_id) :
        /\ x.current_price = 100 /\ x.stop_loss = 95 /\ x.target = 110
        /\ \E i \in 1..Len(result.ret.positions) :
              result.ret.positions[i].id = x.id

\* the ids of the list a monitor pass reports
ReportedIds(res) ==
    {res.ret.positions[i].id : i \in 1..Len(res.ret.positions)}

\* C14: a monitor pass always completes; a position whose price could not be
\* fetched keeps its row as it was and is not in the reported list, while
\* every position whose price was fetched is reported, once, and is priced
\* or closed
C14_FetchFailureSkipsOnlyThatPosition ==
    [][\A q \in EdgeQuotes :
          Monitored(EdgeUser, q)
          => /\ result'.ret.success
             /\ result'.ret.updated_count = Len(result'.ret.positions)
             /\ result'.ret.updated_count
                   = Cardinality({p \in ActiveOf(EdgeUser) : q[p.symbol].found})
             /\ \A p \in ActiveOf(EdgeUser) :
                  IF q[p.symbol].found
                  THEN /\ p.id \in ReportedIds(result')
                       /\ \/ \E h \in trade_history' \ trade_history :
                               h.id = p.id /\ h.exit_price = q[p.symbol].price
                          \/ \E x \in positions' :
                               x.id = p.id /\ x.current_price = q[p.symbol].price
                  ELSE /\ p \in positions'
                       /\ p.id \notin ReportedIds(result')
                       /\ \A h \in trade_history' : h.id # p.id]_vars

\* a pass has just skipped the newest position, whose symbol had no quote,
\* and closed an older one
C14_Witness ==
    /\ result.op = "monitor"
    /\ result.ret.updated_count = 1
    /\ \E x \in ActiveOf(result.user_id) :
        /\ x.id \notin ReportedIds(result)
        /\ x.current_price = x.entry_price
        /\ \E h \in HistoryOf(result.user_id) :
            /\ h.id \in ReportedIds(result)
            /\ h.id < x.id
            /\ h.symbol # x.symbol

\* C18: a trade-history record, once inserted, is in the table unchanged
\* after every later step; an id that has a record is never again the id of
\* a position; and a close asked for such an id fails and adds no record
C18_ClosedIsTerminal ==
    [][ /\ \A h \in trade_history : h \in trade_history'
        /\ \A h \in trade_history : \A p \in positions' : p.id # h.id
        /\ \A u \in Users, id \in KnownIds, px \in Prices :
            (Closed(u, id, px) /\ \E h \in trade_history : h.id = id)
            => /\ ~result'.ret.success
               /\ trade_history' = trade_history ]_vars

\* a second close of a closed trade has just failed, after its owner had
\* opened another position
C18_Witness ==
    /\ result.op = "close"
    /\ ~result.ret.success
    /\ \E h \in HistoryOf(result.user_id) :
        /\ h.id = result.position_id
        /\ h.exit_reason = "MANUAL"
        /\ \E p \in ActiveOf(result.user_id) : p.id > h.id

\* C21 as stated: every execute is accepted or rejected with the reason of
\* one of the four rules, and a request that violates none of the four rules
\* is accepted whatever closed trades the history holds
C21_NeverGenericFailure ==
    [][\A u \in Users : \A td \in TradeInputs(u) :
          Executed(u, td)
          => /\ Reason(result') \in {"accepted", "index_limit",
                                     "reentry_after_stop_loss", "risk",
                                     "position_count"}
             /\ ViolatedRules(u, td) = {} => result'.ret.success]_vars

\* the rows of the three tables that belong to a user
RowsOf(user_id) ==
    [portfolio |-> PortfolioRows(portfolio, user_id),
     positions |-> {p \in positions : p.user_id = user_id},
     trade_history |-> {h \in trade_history : h.user_id = user_id}]

\* C22: a request served for one user leaves every row of another user, in
\* the portfolio, the positions and the trade history, as it was, and the
\* answer to an execute is the one the user would get if the tables held the
\* user's own rows only
C22_UsersIndependent ==
    [][\A a \in Users : \A b \in Users \ {a} :
          /\ (result'.op # "none" /\ result'.user_id = a)
             => RowsOf(b)' = RowsOf(b)
          /\ \A td \in TradeInputs(a) :
               Executed(a, td)
               => result'.ret = api_paper_trading_execute(RowsOf(a), a, td, nextId).ret]_vars

\* a monitor pass of one user has just closed the user's position on a
\* symbol on which another user holds a position too, still at its entry
\* price
C22_Witness ==
    /\ result.op = "monitor"
    /\ result.ret.updated_count > 0
    /\ \E h \in HistoryOf(result.user_id) :
        /\ h.id \in ReportedIds(result)
        /\ \E p \in positions :
            /\ p.user_id # result.user_id
            /\ p.symbol = h.symbol
            /\ p.status = "ACTIVE"
            /\ p.current_price = p.entry_price
            /\ p.target = h.exit_price

\* C23: an accepted execute inserts exactly one position, under an id that
\* no position and no trade-history record has, with current_price equal to
\* the entry price, status ACTIVE and risk_amount = |entry - stop| * quantity,
\* and changes no total of the portfolio; and the risk_amount of a position
\* is the same after every step, in its row and in its history record
C23_InsertOnePosition ==
    [][ /\ \A u \in Users : \A td \in TradeInputs(u) :
            (Executed(u, td) /\ result'.ret.success)
            => /\ \E p \in positions' :
                    /\ positions' = positions \cup {p}
                    /\ p \notin positions
                    /\ p.id = result'.ret.tradeId
                    /\ \A x \in positions \cup trade_history : x.id # p.id
                    /\ p.user_id = u
                    /\ p.current_price = td.entryPrice
                    /\ p.entry_price = td.entryPrice
                    /\ p.status = "ACTIVE"
                    /\ p.risk_amount = CandidateRisk(td)
               /\ trade_history' = trade_history
               /\ \A i \in 1..Len(portfolio) : portfolio'[i] = portfolio[i]
               /\ ValueRead(u)' = ValueRead(u)
        /\ \A p \in positions : \A x \in positions' \cup trade_history' :
            x.id = p.id => x.risk_amount = p.risk_amount ]_vars

\* a short request has just been accepted for a user who has a closed trade
\* and another position open
C23_Witness ==
    /\ result.op = "execute"
    /\ result.ret.success
    /\ \E p \in ActiveOf(result.user_id) :
        /\ p.id = result.ret.tradeId
        /\ p.trade_type = "SELL"
        /\ p.risk_amount = 2000
        /\ \E q \in ActiveOf(result.user_id) : q.id < p.id
    /\ HistoryOf(result.user_id) # {}

\* C24: update_position_price(id, price) sets current_price (and updated_at)
\* of the ACTIVE position with that id and nothing else: every other field
\* of that position, every other position, the trade history and the
\* portfolio are as they were; with no ACTIVE position of that id nothing
\* changes
C24_UpdatePriceFrame ==
    [][\A id \in KnownIds, px \in EdgePrices :
          ( /\ result'.op = "update_position_price"
            /\ result'.position_id = id
            /\ UpdatePrice(id, px) )
          => /\ UNCHANGED <<portfolio, trade_history, nextId>>
             /\ Cardinality(positions') = Cardinality(positions)
             /\ \A p \in positions :
                  IF p.id = id /\ p.status = "ACTIVE"
                  THEN [p EXCEPT !.current_price = px, !.updated_at = today]
                         \in positions'
                  ELSE p \in positions'
             /\ (\A p \in positions : p.id # id) => positions' = positions]_vars

\* a price has just been set on one of two positions, away from its entry
\* price, and its stored pnl is the 0 it was inserted with
C24_Witness ==
    /\ result.op = "update_position_price"
    /\ \E p \in positions :
        /\ p.id = result.position_id
        /\ p.current_price = result.current_price
        /\ p.current_price # p.entry_price
        /\ p.pnl = 0
        /\ \E q \in positions : q.id # p.id /\ q.current_price = q.entry_price

\* the sum of the pnl of a set of trade-history records
RECURSIVE SumPnl(_)
SumPnl(records) ==
    IF records = {} THEN 0
    ELSE LET h == CHOOSE x \in records : TRUE
         IN  h.pnl + SumPnl(records \ {h})

\* C26: with one request at a time, a user who has a closed trade has a
\* portfolio row, and the total_pnl of a user's portfolio row is the sum of
\* the pnl of the user's trade-history records
C26_TotalPnlIsSumOfHistory ==
    \A u \in Users :
        /\ HistoryOf(u) # {} => PortfolioCount(u) = 1
        /\ ActiveOf(u) # {} => PortfolioCount(u) = 1
        /\ \A i \in 1..Len(portfolio) :
             portfolio[i].user_id = u
             => portfolio[i].total_pnl = SumPnl(HistoryOf(u))

\* a user has closed one trade with a gain and one with a loss
C26_Witness ==
    \E u \in Users : \E g \in HistoryOf(u) : \E l \in HistoryOf(u) :
        /\ g.pnl > 0
        /\ l.pnl < 0
        /\ PortfolioRows(portfolio, u)[1].total_pnl = g.pnl + l.pnl

-----------------------------------------------------------------------------
(* SpecConc: two worker processes serve requests of one user side by side. *)
(* Every method of PaperTradingDB opens its own connection, so what one    *)
(* worker committed is read by the next statement of the other.            *)

\* SpecConc: at most this many positions are inserted in a run
ConcOps == 6

ConcUser == "u1"
ConcInputs ==
    { WithStrategy(TradeRequest(SymIndex, "BUY", 10), OneHourSetup),
      TradeRequest(SymStock, "BUY", 10) }

\* get_or_create_portfolio, first statement: SELECT the user's row; a row
\* found is returned at once, otherwise the worker goes on to create one
PortfolioSelect(w, user_id) ==
    /\ workers[w] = Idle
    /\ LET found == PortfolioRows(portfolio, user_id) IN
       IF found # <<>>
       THEN /\ result' = [op |-> "portfolio", user_id |-> user_id, ret |-> found[1]]
            /\ UNCHANGED workers
       ELSE /\ workers' = [workers EXCEPT ![w] = [pc |-> "creating",
                                                  user_id |-> user_id]]
            /\ UNCHANGED result
    /\ UNCHANGED <<portfolio, positions, trade_history, today, nextId>>

\* get_or_create_portfolio, second statement: INSERT the row and commit; the
\* table has no uniqueness constraint on user_id
PortfolioInsert(w) ==
    /\ workers[w].pc = "creating"
    /\ portfolio' = Append(portfolio,
                           [id |-> Len(portfolio) + 1,
                            user_id |-> workers[w].user_id,
                            initial_value |-> InitialCapital,
                            current_value |-> InitialCapital, total_pnl |-> 0])
    /\ workers' = [workers EXCEPT ![w] = [pc |-> "created",
                                          user_id |-> workers[w].user_id]]
    /\ UNCHANGED <<positions, trade_history, today, nextId, result>>

\* get_or_create_portfolio, third statement: SELECT again and return the row
PortfolioFetch(w) ==
    /\ workers[w].pc = "created"
    /\ result' = [op |-> "portfolio", user_id |-> workers[w].user_id,
                  ret |-> PortfolioRows(portfolio, workers[w].user_id)[1]]
    /\ workers' = [workers EXCEPT ![w] = Idle]
    /\ UNCHANGED <<portfolio, positions, trade_history, today, nextId>>

\* execute_paper_trade up to the end of validate_trade_risk: a rejection is
\* returned, an accepted request goes on to the insert
ExecuteValidate(w, user_id, data) ==
    /\ workers[w] = Idle
    /\ LET risk_check == validate_trade_risk(DB, user_id, data) IN
       /\ portfolio' = risk_check.portfolio
       /\ IF risk_check.valid
          THEN /\ workers' = [workers EXCEPT ![w] = [pc |-> "validated",
                                                     user_id |-> user_id,
                                                     trade_data |-> data]]
               /\ UNCHANGED result
          ELSE /\ result' = [op |-> "execute", user_id |-> user_id,
                             ret |-> [success |-> FALSE,
                                      error |-> risk_check.error]]
               /\ UNCHANGED workers
    /\ UNCHANGED <<positions, trade_history, today, nextId>>

\* execute_paper_trade from the call of execute_trade on: the INSERT
ExecuteInsert(w) ==
    /\ workers[w].pc = "validated"
    /\ LET trade_data == workers[w].trade_data
           user_id == workers[w].user_id
       IN  /\ positions' = execute_trade(positions, user_id,
                    [symbol |-> trade_data.symbol, type |-> trade_data.type,
                     quantity |-> trade_data.quantity,
                     entryPrice |-> trade_data.entryPrice,
                     stopLoss |-> trade_data.stopLoss,
                     target |-> trade_data.target,
                     strategy |-> DictGet(trade_data, "strategy", "Manual"),
                     notes |-> DictGet(trade_data, "notes", ""),
                     riskAmount |-> risk_amount_of(trade_data)], nextId)
           /\ result' = [op |-> "execute", user_id |-> user_id,
                         ret |-> [success |-> TRUE, tradeId |-> nextId]]
    /\ nextId' = nextId + 1
    /\ workers' = [workers EXCEPT ![w] = Idle]
    /\ UNCHANGED <<portfolio, trade_history, today>>

WithinConc == nextId' - 1 <= ConcOps

NextConc ==
    \/ \E w \in Workers : PortfolioSelect(w, ConcUser)
    \/ \E w \in Workers : PortfolioInsert(w)
    \/ \E w \in Workers : PortfolioFetch(w)
    \/ \E w \in Workers : \E td \in ConcInputs : ExecuteValidate(w, ConcUser, td)
    \/ \E w \in Workers : ExecuteInsert(w) /\ WithinConc

SpecConc == Init /\ [][NextConc]_vars

\* C15 as stated: whatever the interleaving of the first calls, the portfolio
\* table never holds more than one row for a user, every row is created with
\* 100000, 100000 and 0, and a call changes no existing row
C15_OnePortfolioPerUser ==
    [][ /\ \A u \in Users : PortfolioCount(u)' <= 1
        /\ \A i \in 1..Len(portfolio') :
             i > Len(portfolio)
             => /\ portfolio'[i].initial_value = 100000
                /\ portfolio'[i].current_value = 100000
                /\ portfolio'[i].total_pnl = 0
        /\ (\E w \in Workers :
               \/ PortfolioSelect(w, ConcUser)
               \/ PortfolioInsert(w)
               \/ PortfolioFetch(w))
           => \A i \in 1..Len(portfolio) : portfolio'[i] = portfolio[i] ]_vars

\* C16 as stated: whatever the interleaving of the execute requests of a
\* user, validation and insert act as one step, so that the user never has
\* more than 5 ACTIVE positions nor more than 2 ACTIVE One-Hour-Setup
\* positions on the index symbol
C16_AcceptsSerialized ==
    \A u \in Users :
        /\ Cardinality(ActiveOf(u)) <= 5
        /\ Cardinality({p \in ActiveOf(u) :
                           p.symbol = SymIndex /\ p.strategy = "One Hour Setup"}) <= 2

-----------------------------------------------------------------------------
(* SpecRace: two worker processes close positions of one user side by side, *)
(* by hand and in monitor passes.  The statements of a close between its    *)
(* INSERT and its commit are one step: sqlite lets one connection write at  *)
(* a time and shows the others committed rows only.                         *)

\* SpecRace: at most this many positions are inserted in a run
RaceOps == 2

RaceUser == "u1"
RaceInputs == { TradeRequest(SymStock, "BUY", 10) }
RaceQuotes == {QuoteData(p) : p \in Prices} \cup {NoData}

\* the close as it would be if trade_history had no primary key
close_position_write_unkeyed(db, user_id, position_id, exit_price, exit_reason, pos_dict) ==
    LET pnl == close_pnl(pos_dict, exit_price)
    IN  [db |-> [portfolio |-> update_portfolio_pnl(db.portfolio, user_id, pnl),
                 positions |-> {r \in db.positions :
                                   ~(r.id = position_id /\ r.user_id = user_id)},
                 trade_history |-> db.trade_history \cup
                     {history_row(pos_dict, user_id, position_id,
                                  exit_price, exit_reason)}],
         ret |-> [success |-> TRUE, pnl |-> pnl]]

\* close_position from its INSERT to its commit, with the position dict its
\* SELECT returned: the INSERT raises when trade_history holds the id already
close_position_write(db, user_id, position_id, exit_price, exit_reason, pos_dict) ==
    LET pnl == close_pnl(pos_dict, exit_price)
    IN  IF \E h \in db.trade_history : h.id = position_id
        THEN [db |-> db,
              ret |-> [success |-> FALSE, error |-> "UNIQUE constraint failed"]]
        ELSE [db |-> [portfolio |-> update_portfolio_pnl(db.portfolio, user_id, pnl),
                      positions |-> {r \in db.positions :
                                        ~(r.id = position_id /\ r.user_id = user_id)},
                      trade_history |-> db.trade_history \cup
                          {history_row(pos_dict, user_id, position_id,
                                       exit_price, exit_reason)}],
              ret |-> [success |-> TRUE, pnl |-> pnl]]

\* close_position, the SELECT: no row ends the call, a row is kept for the
\* statements that follow
CloseSelect(w, user_id, position_id, exit_price) ==
    /\ workers[w] = Idle
    /\ LET found == find_position(positions, user_id, position_id) IN
       IF found = {}
       THEN /\ result' = [op |-> "close", user_id |-> user_id,
                          position_id |-> position_id,
                          ret |-> [success |-> FALSE,
                                   error |-> "Position not found"]]
            /\ UNCHANGED workers
       ELSE /\ workers' = [workers EXCEPT ![w] =
                              [pc |-> "closing", user_id |-> user_id,
                               position_id |-> position_id,
                               exit_price |-> exit_price,
                               pos_dict |-> position_to_dict(CHOOSE r \in found : TRUE)]]
            /\ UNCHANGED result
    /\ UNCHANGED <<portfolio, positions, trade_history, today, nextId>>

\* close_position, from the INSERT to the return
CloseWrite(w) ==
    /\ workers[w].pc = "closing"
    /\ \E r \in {close_position_write(DB, workers[w].user_id,
                                       workers[w].position_id,
                                       workers[w].exit_price, "MANUAL",
                                       workers[w].pos_dict)} :
        /\ Commit(r.db)
        /\ result' = [op |-> "close", user_id |-> workers[w].user_id,
                      position_id |-> workers[w].position_id, ret |-> r.ret]
    /\ workers' = [workers EXCEPT ![w] = Idle]
    /\ UNCHANGED <<today, nextId>>

\* api_update_position_prices, the read of the active positions the loop
\* will go through
MonitorRead(w, user_id) ==
    /\ workers[w] = Idle
    /\ workers' = [workers EXCEPT ![w] =
                      [pc |-> "monitoring", user_id |-> user_id,
                       todo |-> get_active_positions(positions, user_id),
                       updated_positions |-> <<>>]]
    /\ UNCHANGED <<portfolio, positions, trade_history, today, nextId, result>>

\* api_update_position_prices, one turn of the loop up to the call of
\* close_position: the newest position left, as it was read at the start of
\* the pass, the fetch of its price, update_position_price and the exit test
MonitorStep(w, current_price_data) ==
    /\ workers[w].pc = "monitoring"
    /\ workers[w].todo # {}
    /\ LET me == workers[w]
           position == CHOOSE p \in me.todo : \A q \in me.todo : q.id <= p.id
           rest == me.todo \ {position}
           current_price == current_price_data.price
       IN  IF ~current_price_data.found
           THEN /\ workers' = [workers EXCEPT ![w] = [me EXCEPT !.todo = rest]]
                /\ UNCHANGED positions
           ELSE /\ positions' = update_position_price(positions, position.id,
                                                      current_price)
                /\ LET exit == exit_condition(position, current_price) IN
                   IF exit = None
                   THEN workers' = [workers EXCEPT ![w] =
                            [me EXCEPT !.todo = rest,
                                       !.updated_positions =
                                           Append(me.updated_positions,
                                                  reported_entry(position,
                                                                 current_price,
                                                                 exit))]]
                   ELSE workers' = [workers EXCEPT ![w] =
                            [pc |-> "monitor_closing", user_id |-> me.user_id,
                             todo |-> rest,
                             updated_positions |-> me.updated_positions,
                             position |-> position,
                             current_price |-> current_price,
                             exit_reason |-> exit]]
    /\ UNCHANGED <<portfolio, trade_history, today, nextId, result>>

\* the monitor's close_position, the SELECT; what the call returns is not
\* looked at, the position is reported CLOSED with the reason of the exit test
MonitorCloseSelect(w) ==
    /\ workers[w].pc = "monitor_closing"
    /\ LET me == workers[w]
           found == find_position(positions, me.user_id, me.position.id)
       IN  IF found = {}
           THEN workers' = [workers EXCEPT ![w] =
                    [pc |-> "monitoring", user_id |-> me.user_id,
                     todo |-> me.todo,
                     updated_positions |->
                         Append(me.updated_positions,
                                reported_entry(me.position, me.current_price,
                                               me.exit_reason))]]
           ELSE workers' = [workers EXCEPT ![w] =
                    [pc |-> "monitor_writing", user_id |-> me.user_id,
                     todo |-> me.todo,
                     updated_positions |-> me.updated_positions,
                     position |-> me.position,
                     current_price |-> me.current_price,
                     exit_reason |-> me.exit_reason,
                     pos_dict |-> position_to_dict(CHOOSE r \in found : TRUE)]]
    /\ UNCHANGED <<portfolio, positions, trade_history, today, nextId, result>>

\* the monitor's close_position, from the INSERT to the return
MonitorCloseWrite(w) ==
    /\ workers[w].pc = "monitor_writing"
    /\ LET me == workers[w] IN
       \E r \in {close_position_write(DB, me.user_id, me.position.id,
                                      me.current_price, me.exit_reason,
                                      me.pos_dict)} :
         /\ Commit(r.db)
         /\ workers' = [workers EXCEPT ![w] =
                [pc |-> "monitoring", user_id |-> me.user_id,
                 todo |-> me.todo,
                 updated_positions |->
                     Append(me.updated_positions,
                            reported_entry(me.position, me.current_price,
                                           me.exit_reason))]]
    /\ UNCHANGED <<today, nextId, result>>

\* api_update_position_prices, the response
MonitorReturn(w) ==
    /\ workers[w].pc = "monitoring"
    /\ workers[w].todo = {}
    /\ result' = [op |-> "monitor", user_id |-> workers[w].user_id,
                  ret |-> [success |-> TRUE,
                           positions |-> workers[w].updated_positions,
                           updated_count |-> Len(workers[w].updated_positions)]]
    /\ workers' = [workers EXCEPT ![w] = Idle]
    /\ UNCHANGED <<portfolio, positions, trade_history, today, nextId>>

WithinRace == nextId' - 1 <= RaceOps

NextRace ==
    \/ \E td \in RaceInputs : Execute(RaceUser, td) /\ WithinRace
    \/ \E w \in Workers, id \in KnownIds, px \in Prices :
          CloseSelect(w, RaceUser, id, px)
    \/ \E w \in Workers : CloseWrite(w)
    \/ \E w \in Workers : MonitorRead(w, RaceUser)
    \/ \E w \in Workers, q \in RaceQuotes : MonitorStep(w, q)
    \/ \E w \in Workers : MonitorCloseSelect(w)
    \/ \E w \in Workers : MonitorCloseWrite(w)
    \/ \E w \in Workers : MonitorReturn(w)

SpecRace == Init /\ [][NextRace]_vars

\* C27: when closes of one position race, by hand or from monitor passes, the
\* trade history never holds two records with one id, the portfolio's
\* total_pnl is the sum of the pnl of the history records, a step that writes
\* history writes one record with a new id and removes its position, and a
\* close that loses (a manual one returning success false, a monitor's one
\* finding the id in the history) leaves all three tables as they were
C27_OneCloseWins ==
    [][/\ \A h1 \in trade_history' : \A h2 \in trade_history' :
            h1.id = h2.id => h1 = h2
       /\ \A i \in 1..Len(portfolio') :
            portfolio'[i].total_pnl
                = SumPnl({h \in trade_history' : h.user_id = portfolio'[i].user_id})
       /\ trade_history' # trade_history
            => \E h \in trade_history' :
                 /\ trade_history' = trade_history \cup {h}
                 /\ \A g \in trade_history : g.id # h.id
                 /\ \E p \in positions : p.id = h.id
                 /\ \A p \in positions' : p.id # h.id
       /\ (result' # result /\ result'.op = "close")
            => IF result'.ret.success
               THEN \E h \in trade_history' \ trade_history :
                        h.id = result'.position_id
               ELSE UNCHANGED <<portfolio, positions, trade_history>>
       /\ \A w \in Workers :
            (/\ workers[w].pc = "monitor_writing"
             /\ workers'[w].pc = "monitoring"
             /\ \E g \in trade_history : g.id = workers[w].position.id)
            => UNCHANGED <<portfolio, positions, trade_history>>
      ]_vars

\* a manual close has lost against another close of the same position: it
\* returned the failure of the INSERT, and the history holds the one record
\* of the close that won
C27_Witness ==
    /\ result.op = "close"
    /\ ~result.ret.success
    /\ result.ret.error = "UNIQUE constraint failed"
    /\ Cardinality({h \in trade_history : h.id = result.position_id}) = 1

\* C29: every position a monitor pass reports as CLOSED with an exit reason
\* has a trade-history record with the same id, the same exit reason and the
\* price fetched in the pass as exit_price, also when manual closes run
\* between the steps of the pass
C29_ReportMatchesLedger ==
    result.op = "monitor"
    => \A i \in 1..Len(result.ret.positions) :
         LET e == result.ret.positions[i] IN
         e.status = "CLOSED"
         => \E h \in trade_history :
              /\ h.id = e.id
              /\ h.exit_reason = e.exit_reason
              /\ h.exit_price = e.current_price

-----------------------------------------------------------------------------
(* app.py: the One Hour Setup scanner.  SpecScan draws a prior-day candle,  *)
(* a quote and the filters of the caller, and applies the analysis to them. *)

\* (num / den) * 100 > threshold, for den # 0
PctExceeds(num, den, threshold) ==
    IF den > 0 THEN num * 100 > threshold * den ELSE num * 100 < threshold * den

\* the strong test as it would be with >= for > on the body percentage
is_strong_candle_inclusive(body_size, total_range, open_price) ==
    \/ body_size * 100 >= 50 * total_range
    \/ PctExceeds(body_size, Abs(open_price), 2)

\* body_percentage > 50 or price_change_percent > 2
is_strong_candle(body_size, total_range, open_price) ==
    \/ PctExceeds(body_size, total_range, 50)
    \/ PctExceeds(body_size, Abs(open_price), 2)

\* body_percentage > 30 or price_change_percent > 1
is_medium_candle(body_size, total_range, open_price) ==
    \/ PctExceeds(body_size, total_range, 30)
    \/ PctExceeds(body_size, Abs(open_price), 1)

determine_close_strength(hist_data) ==
    LET open_price == hist_data.prev_day_open
        close_price == hist_data.prev_day_close
        high_price == hist_data.prev_day_high
        low_price == hist_data.prev_day_low
        body_size == Abs(close_price - open_price)
        total_range == high_price - low_price
    IN  IF total_range = 0
        THEN IF close_price > open_price THEN "Strong Bullish"
             ELSE IF close_price < open_price THEN "Strong Bearish"
             ELSE "Neutral"
        ELSE IF open_price = 0
        THEN "Neutral"      \* ZeroDivisionError, caught by the except clause
        ELSE IF is_strong_candle(body_size, total_range, open_price)
        THEN IF close_price > open_price THEN "Strong Bullish" ELSE "Strong Bearish"
        ELSE IF is_medium_candle(body_size, total_range, open_price)
        THEN IF close_price > open_price THEN "Bullish" ELSE "Bearish"
        ELSE "Neutral"

\* the flat test as it would be with < for <=
check_flat_opening_strict(hist_data, current_price, filters) ==
    LET prev_close == hist_data.prev_day_close
        stock_tolerance == DictGet(filters, "stockFlatTolerance", 1)
    IN  /\ prev_close # 0
        /\ Abs(current_price.price - prev_close) * 100
              < stock_tolerance * Abs(prev_close)

\* percent_diff <= stock_tolerance; a zero prev_close raises, which the except
\* clause turns into False
check_flat_opening(hist_data, current_price, filters) ==
    LET prev_close == hist_data.prev_day_close
        stock_tolerance == DictGet(filters, "stockFlatTolerance", 1)
    IN  /\ prev_close # 0
        /\ Abs(current_price.price - prev_close) * 100
              <= stock_tolerance * Abs(prev_close)

analyze_one_hour_setup(hist_data, current_price, filters) ==
    LET prev_close_strength == determine_close_strength(hist_data)
        flat_open == check_flat_opening(hist_data, current_price, filters)
        strong == prev_close_strength \in {"Strong Bullish", "Strong Bearish"}
    IN  [eligible |-> strong /\ flat_open,
         prev_close_type |-> prev_close_strength,
         flat_open |-> flat_open,
         signal |-> IF flat_open /\ strong THEN "Setup Ready" ELSE "Wait for Signal"]

\* the candles, quotes and filters SpecScan draws: bodies of 0, 1, 2, 3 and 6
\* on opens of 100, 103 and 200 (1%, 2%, 3%, 6% of 100 and their halves),
\* wicks that put the body at, under and over 30% and 50% of the range
Opens == {100, 103, 200}
BodyMoves == {-6, -3, -2, -1, 0, 1, 2, 3, 6}
UpperWicks == {0, 1, 4}
LowerWicks == {0, 1, 4, 10}
QuoteMoves == {-3, -2, -1, 0, 1, 2, 3}
Max(a, b) == IF a >= b THEN a ELSE b
Min(a, b) == IF a <= b THEN a ELSE b
\* candles as a well-behaved feed delivers them, and candles whose high and
\* low are one price although open and close differ, the case the zero-range
\* branch of determine_close_strength provides for
Candles ==
    {[prev_day_open |-> o, prev_day_close |-> o + m,
      prev_day_high |-> Max(o, o + m) + u, prev_day_low |-> Min(o, o + m) - l] :
        o \in Opens, m \in BodyMoves, u \in UpperWicks, l \in LowerWicks}
    \cup
    {[prev_day_open |-> o, prev_day_close |-> o + m,
      prev_day_high |-> o, prev_day_low |-> o] : o \in Opens, m \in BodyMoves}
Filters == {[strategy |-> "one_hour_setup"],
            [strategy |-> "one_hour_setup", stockFlatTolerance |-> 1],
            [strategy |-> "one_hour_setup", stockFlatTolerance |-> 2]}
ScanRequests ==
    {[op |-> "scan_request", hist_data |-> h,
      current_price |-> [price |-> h.prev_day_close + q], filters |-> f] :
        h \in Candles, q \in QuoteMoves, f \in Filters}

InitScan ==
    /\ portfolio = <<>>
    /\ positions = {}
    /\ trade_history = {}
    /\ today = 0
    /\ nextId = 1
    /\ workers = [w \in Workers |-> Idle]
    /\ result \in ScanRequests

\* scan_one_hour_setup analyses the symbol it has the candle and the quote of
AnalyzeSetup ==
    /\ result.op = "scan_request"
    /\ result' = [op |-> "scan", hist_data |-> result.hist_data,
                  current_price |-> result.current_price,
                  filters |-> result.filters,
                  ret |-> analyze_one_hour_setup(result.hist_data,
                                                 result.current_price,
                                                 result.filters)]
    /\ UNCHANGED <<portfolio, positions, trade_history, today, nextId, workers>>

NextScan == AnalyzeSetup

SpecScan == InitScan /\ [][NextScan]_vars

\* the label the specification gives a candle with a non-zero range, the
\* percentages compared as fractions
ExpectedStrength(o, c, h, l) ==
    LET body == IF c >= o THEN c - o ELSE o - c
        body_pct_over(t) == body * 100 > t * (h - l)
        chg_pct_over(t) == body * 100 > t * o
    IN  IF body_pct_over(50) \/ chg_pct_over(2)
        THEN IF c > o THEN "Strong Bullish" ELSE "Strong Bearish"
        ELSE IF body_pct_over(30) \/ chg_pct_over(1)
        THEN IF c > o THEN "Bullish" ELSE "Bearish"
        ELSE "Neutral"

\* C19: for a candle with high - low # 0 the strength returned is Strong
\* Bullish or Strong Bearish if body_pct > 50 or chg_pct > 2, else Bullish or
\* Bearish if body_pct > 30 or chg_pct > 1, else Neutral; the candle 100,
\* 106, 107, 99 is Strong Bullish
C19_CloseStrength ==
    /\ determine_close_strength([prev_day_open |-> 100, prev_day_close |-> 106,
                                 prev_day_high |-> 107, prev_day_low |-> 99])
         = "Strong Bullish"
    /\ (result.op = "scan"
        /\ result.hist_data.prev_day_high - result.hist_data.prev_day_low # 0)
       => result.ret.prev_close_type
            = ExpectedStrength(result.hist_data.prev_day_open,
                               result.hist_data.prev_day_close,
                               result.hist_data.prev_day_high,
                               result.hist_data.prev_day_low)

\* a candle whose body is exactly 50% of its range and exactly 2% of its
\* open has just been labelled Bullish, not Strong Bullish
C19_Witness ==
    /\ result.op = "scan"
    /\ result.hist_data = [prev_day_open |-> 100, prev_day_close |-> 102,
                           prev_day_high |-> 103, prev_day_low |-> 99]
    /\ result.ret.prev_close_type = "Bullish"

\* C20: the analysis marks the symbol eligible, with signal Setup Ready, if
\* and only if the strength is Strong Bullish or Strong Bearish and
\* |current_price - prev_close| / prev_close * 100 <= tolerance, the tolerance
\* being 1 when the caller gives none; otherwise the signal is Wait for
\* Signal and the symbol is not eligible
C20_SetupReady ==
    result.op = "scan"
    => LET prev_close == result.hist_data.prev_day_close
           diff == result.current_price.price - prev_close
           tolerance == IF "stockFlatTolerance" \in DOMAIN result.filters
                        THEN result.filters.stockFlatTolerance ELSE 1
           flat == (IF diff < 0 THEN -diff ELSE diff) * 100 <= tolerance * prev_close
           ready == /\ result.ret.prev_close_type \in {"Strong Bullish", "Strong Bearish"}
                    /\ flat
       IN  /\ result.ret.flat_open = flat
           /\ result.ret.eligible = ready
           /\ result.ret.signal = IF ready THEN "Setup Ready" ELSE "Wait for Signal"

\* a strong candle followed by a quote exactly 1% off its close has just
\* been found ready under the default tolerance
C20_Witness ==
    /\ result.op = "scan"
    /\ "stockFlatTolerance" \notin DOMAIN result.filters
    /\ result.hist_data.prev_day_close = 100
    /\ result.current_price.price = 101
    /\ result.ret.prev_close_type = "Strong Bearish"
    /\ result.ret.signal = "Setup Ready"
    /\ result.ret.eligible

\* C25 as stated: a candle with high - low = 0 is labelled Bullish if its
\* close is above its open, Bearish if below, Neutral otherwise, never with
\* a Strong label, and never makes the symbol eligible or Setup Ready
C25_ZeroRangeNeverStrong ==
    (result.op = "scan"
     /\ result.hist_data.prev_day_high - result.hist_data.prev_day_low = 0)
    => /\ result.ret.prev_close_type
            = IF result.hist_data.prev_day_close > result.hist_data.prev_day_open
              THEN "Bullish"
              ELSE IF result.hist_data.prev_day_close < result.hist_data.prev_day_open
              THEN "Bearish"
              ELSE "Neutral"
       /\ ~result.ret.eligible
       /\ result.ret.signal # "Setup Ready"

-----------------------------------------------------------------------------
(* app.py: the broker's quote responses behind the monitor, and the        *)
(* risk-management status report.  SpecStatus: one user, one request at a   *)
(* time, the monitor fed with what get_current_price makes of a response.   *)

\* SpecStatus: the run is at most this many operations long
StatusOps == 3

StatusUser == "u1"

\* the last prices the broker supplies
SuppliedPrices == {90, 110}

\* fyers.quotes: a response with a last price, one whose quote has no 'lp',
\* and one that is no quote at all
QuoteWithPrice(p) == [code |-> 200, d |-> <<[v |-> [lp |-> p, volume |-> 0]]>>]
QuoteWithoutPrice == [code |-> 200, d |-> <<[v |-> [volume |-> 0]]>>]
QuoteFailed == [code |-> 500, d |-> <<>>]
QuoteResponses ==
    {QuoteWithPrice(p) : p \in SuppliedPrices} \cup {QuoteWithoutPrice, QuoteFailed}

\* get_current_price: None unless the response has code 200 and a quote;
\* else a dict whose price is the quote's 'lp', 0 when the quote has none
get_current_price(response) ==
    IF response.code = 200 /\ response.d # <<>>
    THEN LET quote_data == response.d[1]
         IN  QuoteData(DictGet(DictGet(quote_data, "v", <<>>), "lp", 0))
    ELSE NoData

\* app.py get_portfolio_data: the value of the user's portfolio row, created
\* when the user has none
get_portfolio_data(db, user_id) ==
    LET got == get_or_create_portfolio(db.portfolio, user_id)
    IN  [table |-> got.table,
         data |-> [value |-> got.row.current_value,
                   totalPnL |-> got.row.total_pnl,
                   activeTrades |-> Cardinality(get_active_positions(db.positions,
                                                                     user_id)),
                   completedTrades |-> Cardinality(get_trade_history(db.trade_history,
                                                                     user_id))]]

\* app.py get_active_positions: the dicts of the database, their pnl computed
\* from the current price
app_get_active_positions(pos, user_id) ==
    { [position EXCEPT !.pnl = close_pnl(position, position.current_price)] :
        position \in get_active_positions(pos, user_id) }

\* sum(pos.get('riskAmount', 0) for pos in active_positions)
RECURSIVE total_risk_of(_)
total_risk_of(active_positions) ==
    IF active_positions = {} THEN 0
    ELSE LET pos == CHOOSE x \in active_positions : TRUE
         IN  DictGet(pos, "riskAmount", 0) + total_risk_of(active_positions \ {pos})

\* GET /api/risk-management/status; riskPercentage is kept as the fraction
\* whose quotient the code returns, and maxRiskAllowed, value * 0.02, is a
\* whole number for the values of the model
api_risk_management_status(db, user_id) ==
    LET got == get_portfolio_data(db, user_id)
        portfolio_data == got.data
        active_positions == app_get_active_positions(db.positions, user_id)
        total_risk == total_risk_of(active_positions)
        strategies == {DictGet(pos, "strategy", "Unknown") : pos \in active_positions}
    IN  [db |-> [db EXCEPT !.portfolio = got.table],
         ret |-> [success |-> TRUE,
                  riskMetrics |->
                    [totalRisk |-> total_risk,
                     riskPercentage |->
                         IF portfolio_data.value > 0
                         THEN [num |-> total_risk * 100, den |-> portfolio_data.value]
                         ELSE [num |-> 0, den |-> 1],
                     maxRiskAllowed |-> (portfolio_data.value * 2) \div 100,
                     activePositions |-> Cardinality(active_positions),
                     maxPositions |-> 5,
                     indexTrades |->
                         Cardinality({pos \in active_positions :
                                         is_index_symbol(DictGet(pos, "symbol", <<>>))}),
                     maxIndexTrades |-> 2,
                     strategyBreakdown |->
                         [st \in strategies |->
                             Cardinality({pos \in active_positions :
                                 DictGet(pos, "strategy", "Unknown") = st})]]]]

RiskStatus(user_id) ==
    \E r \in {api_risk_management_status(DB, user_id)} :
    /\ Commit(r.db)
    /\ result' = [op |-> "risk_status", user_id |-> user_id, ret |-> r.ret]
    /\ UNCHANGED <<today, nextId, workers>>

\* the requests of SpecStatus: they risk 50, 100 and 150
StatusInputs ==
    { TradeRequest(SymStock, "BUY", 10),
      TradeRequest(SymStock, "SELL", 20),
      WithStrategy(TradeRequest(SymIndex, "BUY", 30), OneHourSetup) }

\* what the broker answers for each symbol in one monitor pass
StatusResponses == [Symbols -> QuoteResponses]

WithinStatus == OpsDone' <= StatusOps

NextStatus ==
    \/ \E td \in StatusInputs : Execute(StatusUser, td) /\ WithinStatus
    \/ \E id \in KnownIds, px \in SuppliedPrices :
          Close(StatusUser, id, px) /\ WithinStatus
    \/ \E resp \in StatusResponses :
          Monitor(StatusUser, [sym \in Symbols |-> get_current_price(resp[sym])])
          /\ WithinStatus
    \/ RiskStatus(StatusUser)

SpecStatus == Init /\ [][NextStatus]_vars

\* C28: a quote without a last price is no data for the monitor: no position
\* ever carries a current price other than its entry price or a last price
\* the broker supplied, and no trade closed by the monitor has an exit price
\* other than a supplied last price (so none has the defaulted price 0)
C28_AbsentPriceIsNoData ==
    /\ \A p \in positions :
         p.current_price \in SuppliedPrices \cup {p.entry_price}
    /\ \A h \in trade_history :
         h.exit_reason \in {"STOP_LOSS", "TARGET"} => h.exit_price \in SuppliedPrices

\* the sum of the stored risk_amount of a set of position rows
RECURSIVE SumRisk(_)
SumRisk(rows) ==
    IF rows = {} THEN 0
    ELSE LET r == CHOOSE x \in rows : TRUE
         IN  r.risk_amount + SumRisk(rows \ {r})

\* C30: the status report gives as totalRisk the sum of risk_amount over the
\* user's ACTIVE positions, as activePositions their number, and as
\* maxRiskAllowed 2% of the current_value of the user's portfolio row
C30_StatusReportsRisk ==
    result.op = "risk_status"
    => LET m == result.ret.riskMetrics IN
       /\ m.totalRisk = SumRisk(ActiveOf(result.user_id))
       /\ m.activePositions = Cardinality(ActiveOf(result.user_id))
       /\ \A i \in 1..Len(portfolio) :
            portfolio[i].user_id = result.user_id
            => m.maxRiskAllowed * 100 = portfolio[i].current_value * MaxRiskPercent

====
